---- MODULE Spec2Model ----
(***************************************************************************)
(* A model of package unfolder (src/unfolder.go): UnfoldMesh and the       *)
(* functions it calls, BuildFaceAdjacency, BuildFaceSpanningTree and the   *)
(* placement loop.                                                         *)
(*                                                                         *)
(* Go indexes slices from 0 and the model keeps the Go indices: face f of  *)
(* a polyhedron is faces[f+1], slot i of a face is face[i+1].  A nil       *)
(* pointer or a nil error is the empty sequence.  The coordinates          *)
(* (Vector3, Point2, float64) are not modelled: a Face2D holds one point   *)
(* per vertex of its face, and the model keeps which vertex each point     *)
(* belongs to; Vertex2D is left out.  Every vertex index of a face is      *)
(* taken to be an index of poly.Vertices.  The file ends inside            *)
(* placeRootFace: what a placement writes, and when placeAdjacentFace      *)
(* fails, follow the design document (PlacedPoints,                        *)
(* placeAdjacentFaceFails).                                                *)
(***************************************************************************)
EXTENDS Integers, Sequences, FiniteSets, TLC

VARIABLES
  faces,       \* poly.Faces: a sequence of faces, each a sequence of vertex indices
  rootFace,    \* the rootFace argument of UnfoldMesh
  pc,          \* where UnfoldMesh is
  adjacency,   \* adjacency.Neighbors: face index -> sequence of FaceNeighbor
  adjErr,      \* the error BuildFaceAdjacency returned
  parent,      \* parent in BuildFaceSpanningTree, then in UnfoldMesh
  visited,     \* visited in BuildFaceSpanningTree
  bfsQueue,    \* queue in BuildFaceSpanningTree
  placed,      \* placed in UnfoldMesh
  face2Ds,     \* face2Ds in UnfoldMesh
  queue,       \* queue in UnfoldMesh
  fIdx,        \* fIdx in UnfoldMesh's loop
  nbrPos,      \* the position of `range adjacency.Neighbors[fIdx]`
  result,      \* the *UnfoldResult returned (<<>> is nil)
  err,         \* the error returned (<<>> is nil)
  treeOrder,   \* history: the faces BuildFaceSpanningTree dequeued, in order
  placeOrder,  \* history: the faces UnfoldMesh's loop dequeued, in order
  placeLog,    \* history: the calls of placeRootFace and placeAdjacentFace
  run,         \* which call of UnfoldMesh this is (1 or 2)
  first        \* what the first call left behind, once a second is made

vars == <<faces, rootFace, pc, adjacency, adjErr, parent, visited, bfsQueue,
          placed, face2Ds, queue, fIdx, nbrPos, result, err, treeOrder,
          placeOrder, placeLog, run, first>>

---------------------------------------------------------------------------
(* Bounds of the inputs. *)

\* The generated polyhedra have at most this many faces.
MaxFaces == 2

\* Up to this many two-face edges, the edge map is iterated in every order.
MaxPermKeys == 6

\* Vertex indices and face lengths of the generated polyhedra.
Verts == 0..2
FaceLens == 0..3

---------------------------------------------------------------------------
(* Helpers of the model. *)

Nil == <<>>

Min(S) == CHOOSE x \in S : \A y \in S : x <= y

Range(s) == {s[i] : i \in DOMAIN s}

\* len(poly.Faces)
NFaces(fs) == Len(fs)

\* The valid face indices.
FaceIdx(fs) == 0..(Len(fs) - 1)

\* poly.Faces[f].Vertices
Face(fs, f) == fs[f + 1]

\* face.Vertices[i]
At(face, i) == face[i + 1]

\* Lexicographic order of edge keys, used to write a set of keys as a sequence.
KeyLess(a, b) == a[1] < b[1] \/ (a[1] = b[1] /\ a[2] < b[2])

RECURSIVE SortedKeys(_)
SortedKeys(S) ==
  IF S = {} THEN <<>>
  ELSE LET m == CHOOSE x \in S : \A y \in S : x = y \/ KeyLess(x, y)
       IN <<m>> \o SortedKeys(S \ {m})

Reverse(s) == [i \in 1..Len(s) |-> s[Len(s) + 1 - i]]

Rotations(s) ==
  {[i \in 1..Len(s) |-> s[((i - 1 + k) % Len(s)) + 1]] : k \in 0..(Len(s) - 1)}

RECURSIVE Perms(_)
Perms(S) ==
  IF S = {} THEN {<<>>}
  ELSE UNION {{<<x>> \o p : p \in Perms(S \ {x})} : x \in S}

---------------------------------------------------------------------------
(* BuildFaceAdjacency *)

sortPairUnsorted(a, b) == <<a, b>>

sortPair(a, b) == IF a < b THEN <<a, b>> ELSE <<b, a>>

\* The (value, error) pair findEdgeInFace returns.
findEdgeInFace(face, sortedEdge) ==
  LET vCount == Len(face)
      hits == {i \in 0..(vCount - 1) :
                 sortPair(At(face, i), At(face, (i + 1) % vCount)) = sortedEdge}
  IN IF hits = {}
     THEN [edge |-> <<-1, -1>>, err |-> TRUE]
     ELSE [edge |-> <<Min(hits), (Min(hits) + 1) % vCount>>, err |-> FALSE]

\* edgeMap[edge] = append(edgeMap[edge], fIdx)
AppendFace(em, edge, f) ==
  IF edge \in DOMAIN em
  THEN [em EXCEPT ![edge] = Append(@, f)]
  ELSE em @@ (edge :> <<f>>)

\* The two nested loops that populate edgeMap, from face f, slot i on.
RECURSIVE PopulateEdgeMap(_, _, _, _)
PopulateEdgeMap(fs, f, i, em) ==
  IF f >= NFaces(fs) THEN em
  ELSE LET face == Face(fs, f)
           vCount == Len(face)
       IN IF i >= vCount
          THEN PopulateEdgeMap(fs, f + 1, 0, em)
          ELSE LET vA == At(face, i)
                   vB == At(face, (i + 1) % vCount)
                   edge == sortPair(vA, vB)
               IN PopulateEdgeMap(fs, f, i + 1, AppendFace(em, edge, f))

EdgeMap(fs) == PopulateEdgeMap(fs, 0, 0, <<>>)

FaceNeighbor(fi, se, tfe) ==
  [FaceIndex |-> fi, SharedEdge |-> se, ThisFaceEdge |-> tfe]

AddNeighborsOneWay(adj, f0, n0, f1, n1) == [adj EXCEPT ![f0] = Append(@, n0)]

\* The two appends to adj.Neighbors, in the code's order.
AddNeighbors(adj, f0, n0, f1, n1) ==
  LET a0 == [adj EXCEPT ![f0] = Append(@, n0)]
  IN [a0 EXCEPT ![f1] = Append(@, n1)]

\* len(faceList) == 2
IsShared(faceList) == Len(faceList) = 2

\* One iteration of `for edge, faceList := range edgeMap`.
RangeBody(fs, adj, edge, faceList) ==
  IF IsShared(faceList)
  THEN LET f0 == faceList[1]
           f1 == faceList[2]
           r0 == findEdgeInFace(Face(fs, f0), edge)
           r1 == findEdgeInFace(Face(fs, f1), edge)
       IN IF r0.err \/ r1.err
          THEN adj
          ELSE AddNeighbors(adj, f0, FaceNeighbor(f1, edge, r0.edge),
                                 f1, FaceNeighbor(f0, edge, r1.edge))
  ELSE adj

\* The range loop over edgeMap, visiting the keys in the order ord.
RECURSIVE RangeLoop(_, _, _, _)
RangeLoop(fs, em, ord, adj) ==
  IF ord = <<>> THEN adj
  ELSE RangeLoop(fs, em, Tail(ord), RangeBody(fs, adj, Head(ord), em[Head(ord)]))

\* The keys whose iteration changes adj.
PairKeys(em) == {k \in DOMAIN em : Len(em[k]) = 2}

(* The orders in which Go may iterate edgeMap: any.  An iteration over a   *)
(* key that is not a two-face edge changes nothing, so the orders are told *)
(* apart by the two-face keys alone; the other keys follow in key order.   *)
(* A map with more than MaxPermKeys two-face keys is iterated from every   *)
(* starting position, upwards and downwards.                               *)
IterationOrders(em) ==
  LET pk == PairKeys(em)
      rest == SortedKeys(DOMAIN em \ pk)
      heads == IF Cardinality(pk) <= MaxPermKeys
               THEN Perms(pk)
               ELSE Rotations(SortedKeys(pk)) \cup Rotations(Reverse(SortedKeys(pk)))
  IN {h \o rest : h \in heads}

\* adj.Neighbors as made: no face has an entry.
EmptyAdjacency(fs) == [f \in FaceIdx(fs) |-> <<>>]

---------------------------------------------------------------------------
(* BuildFaceSpanningTree *)

\* parent[i] = -1
NoParent == -1

InitParentZero(fs) == [i \in FaceIdx(fs) |-> 0]

\* parent := make([]int, nFaces) and the loop that sets every entry to -1
InitParent(fs) == [i \in FaceIdx(fs) |-> NoParent]

TreeVisitOverwrite(st, current, nbr) ==
  IF ~st.visited[nbr.FaceIndex]
  THEN [visited |-> [st.visited EXCEPT ![nbr.FaceIndex] = TRUE],
        parent  |-> [st.parent EXCEPT ![nbr.FaceIndex] = current],
        queue   |-> Append(st.queue, nbr.FaceIndex)]
  ELSE [st EXCEPT !.parent[nbr.FaceIndex] = current]

\* The body of `for _, nbr := range neighbors`, on (visited, parent, queue).
TreeVisit(st, current, nbr) ==
  IF ~st.visited[nbr.FaceIndex]
  THEN [visited |-> [st.visited EXCEPT ![nbr.FaceIndex] = TRUE],
        parent  |-> [st.parent EXCEPT ![nbr.FaceIndex] = current],
        queue   |-> Append(st.queue, nbr.FaceIndex)]
  ELSE st

RECURSIVE TreeInner(_, _, _)
TreeInner(neighbors, st, current) ==
  IF neighbors = <<>> THEN st
  ELSE TreeInner(Tail(neighbors), TreeVisit(st, current, Head(neighbors)), current)

---------------------------------------------------------------------------
(* Placement *)

\* placeRootFace's guard: face has fewer than 3 vertices.
placeRootFaceFails(face) == Len(face) < 3

\* placeAdjacentFace's guard on the child face.
placeAdjacentFaceFails(face) == Len(face) < 3

\* What a placement writes through its *Face2D: one point per vertex.
PlacedPoints(face) == face

IsTreeEdgeIgnoringPlaced(par, pl, f, nf) == par[nf] = f

\* parent[nfIdx] == fIdx && !placed[nfIdx]
IsTreeEdge(par, pl, f, nf) == par[nf] = f /\ ~pl[nf]

EnqueueFront(q, nf) == <<nf>> \o q

\* queue = append(queue, nfIdx) in UnfoldMesh
Enqueue(q, nf) == Append(q, nf)

---------------------------------------------------------------------------
(* The inputs *)

\* buildUnitCube's faces
UnitCube ==
  << <<0, 1, 2, 3>>, <<4, 5, 6, 7>>, <<0, 1, 5, 4>>,
     <<1, 2, 6, 5>>, <<2, 3, 7, 6>>, <<3, 0, 4, 7>> >>

Tetrahedron == << <<0, 1, 2>>, <<0, 3, 1>>, <<1, 3, 2>>, <<2, 3, 0>> >>

\* Four triangles around vertex 0: the adjacency graph is a 4-cycle.
Ring == << <<0, 1, 2>>, <<0, 2, 3>>, <<0, 3, 4>>, <<0, 4, 1>> >>

\* Three triangles in a row.
Strip == << <<0, 1, 2>>, <<2, 1, 3>>, <<2, 3, 4>> >>

\* Edge (0,1) belongs to three triangles, edge (0,2) to two.
Fan == << <<0, 1, 2>>, <<1, 0, 3>>, <<0, 1, 4>>, <<0, 5, 2>> >>

\* Two pairs of triangles with no edge between the pairs.
TwoParts == << <<0, 1, 2>>, <<2, 1, 3>>, <<4, 5, 6>>, <<6, 5, 7>> >>

\* Two quadrilaterals that share two edges, and a triangle on one of them.
DoubleHinge == << <<0, 1, 2, 3>>, <<2, 1, 0, 4>>, <<0, 3, 5>> >>

NamedPolyhedra == {UnitCube, Tetrahedron, Ring, Strip, Fan, TwoParts, DoubleHinge}

GenFaces == UNION {[1..n -> Verts] : n \in FaceLens}

RECURSIVE Flatten(_)
Flatten(fs) == IF fs = <<>> THEN <<>> ELSE Head(fs) \o Flatten(Tail(fs))

\* The vertices are numbered in the order of their first use: 0, then 1, ...
FirstUseOrder(fs) ==
  LET flat == Flatten(fs)
  IN \A p \in DOMAIN flat : flat[p] <= Cardinality({flat[q] : q \in 1..(p - 1)})

\* The polyhedra of at most MaxFaces faces over GenFaces, one of each class
\* of polyhedra that differ only in the numbering of their vertices.
GenPolyhedra ==
  {fs \in UNION {[1..n -> GenFaces] : n \in 0..MaxFaces} : FirstUseOrder(fs)}

Polyhedra == GenPolyhedra \cup NamedPolyhedra

\* The roots tried: every face index, and the first index out of range.
RootFaces(fs) == 0..NFaces(fs)

---------------------------------------------------------------------------
(* UnfoldMesh *)

\* The locals of a call before it has run.
Fresh ==
  /\ pc = "start"
  /\ adjacency = <<>>
  /\ adjErr = Nil
  /\ parent = <<>>
  /\ visited = <<>>
  /\ bfsQueue = <<>>
  /\ placed = <<>>
  /\ face2Ds = <<>>
  /\ queue = <<>>
  /\ fIdx = -1
  /\ nbrPos = 0
  /\ result = Nil
  /\ err = Nil
  /\ treeOrder = <<>>
  /\ placeOrder = <<>>
  /\ placeLog = <<>>

Init ==
  /\ faces \in Polyhedra
  /\ rootFace \in RootFaces(faces)
  /\ run = 1
  /\ first = Nil
  /\ Fresh

\* if len(poly.Faces) == 0 { return nil, errors.New(...) }
Enter ==
  /\ pc = "start"
  /\ IF NFaces(faces) = 0
     THEN /\ pc' = "error"
          /\ err' = <<"polyhedron has no faces">>
     ELSE /\ pc' = "adjacency"
          /\ err' = err
  /\ UNCHANGED <<faces, rootFace, adjacency, adjErr, parent, visited, bfsQueue,
                 placed, face2Ds, queue, fIdx, nbrPos, result, treeOrder,
                 placeOrder, placeLog, run, first>>

\* adjacency, err := BuildFaceAdjacency(poly): the whole function, which
\* returns &adj and a nil error.
CallBuildFaceAdjacency ==
  /\ pc = "adjacency"
  /\ \E ord \in IterationOrders(EdgeMap(faces)) :
       adjacency' = RangeLoop(faces, EdgeMap(faces), ord, EmptyAdjacency(faces))
  /\ adjErr' = Nil
  /\ pc' = "tree"
  /\ UNCHANGED <<faces, rootFace, parent, visited, bfsQueue, placed, face2Ds,
                 queue, fIdx, nbrPos, result, err, treeOrder, placeOrder,
                 placeLog, run, first>>

\* BuildFaceSpanningTree up to its loop; visited[rootFace] = true panics
\* when rootFace is out of range.
TreeStart ==
  /\ pc = "tree"
  /\ IF rootFace \in FaceIdx(faces)
     THEN /\ parent' = InitParent(faces)
          /\ visited' = [[i \in FaceIdx(faces) |-> FALSE] EXCEPT ![rootFace] = TRUE]
          /\ bfsQueue' = <<rootFace>>
          /\ pc' = "bfs"
     ELSE /\ pc' = "panic"
          /\ UNCHANGED <<parent, visited, bfsQueue>>
  /\ UNCHANGED <<faces, rootFace, adjacency, adjErr, placed, face2Ds, queue,
                 fIdx, nbrPos, result, err, treeOrder, placeOrder, placeLog,
                 run, first>>

\* One iteration of `for len(queue) > 0` in BuildFaceSpanningTree.
TreeStep ==
  /\ pc = "bfs"
  /\ Len(bfsQueue) > 0
  /\ LET current == Head(bfsQueue)
         st == TreeInner(adjacency[current],
                         [visited |-> visited, parent |-> parent,
                          queue |-> Tail(bfsQueue)],
                         current)
     IN /\ visited' = st.visited
        /\ parent' = st.parent
        /\ bfsQueue' = st.queue
        /\ treeOrder' = Append(treeOrder, current)
  /\ UNCHANGED <<faces, rootFace, pc, adjacency, adjErr, placed, face2Ds, queue,
                 fIdx, nbrPos, result, err, placeOrder, placeLog, run, first>>

\* return parent
TreeReturn ==
  /\ pc = "bfs"
  /\ Len(bfsQueue) = 0
  /\ pc' = "root"
  /\ UNCHANGED <<faces, rootFace, adjacency, adjErr, parent, visited, bfsQueue,
                 placed, face2Ds, queue, fIdx, nbrPos, result, err, treeOrder,
                 placeOrder, placeLog, run, first>>

\* placed, face2Ds, the call of placeRootFace and the queue's first entry.
PlaceRoot ==
  /\ pc = "root"
  /\ placed' = [[i \in FaceIdx(faces) |-> FALSE] EXCEPT ![rootFace] = TRUE]
  /\ placeLog' = Append(placeLog,
       [fn |-> "placeRootFace", from |-> -1, face |-> rootFace,
        fromPlaced |-> TRUE, facePlaced |-> TRUE, faceParent |-> parent[rootFace]])
  /\ IF placeRootFaceFails(Face(faces, rootFace))
     THEN /\ face2Ds' = [i \in FaceIdx(faces) |-> <<>>]
          /\ err' = <<"failed to place root face">>
          /\ pc' = "error"
          /\ queue' = queue
     ELSE /\ face2Ds' = [[i \in FaceIdx(faces) |-> <<>>]
                           EXCEPT ![rootFace] = PlacedPoints(Face(faces, rootFace))]
          /\ err' = err
          /\ pc' = "loop"
          /\ queue' = <<rootFace>>
  /\ UNCHANGED <<faces, rootFace, adjacency, adjErr, parent, visited, bfsQueue,
                 fIdx, nbrPos, result, treeOrder, placeOrder, run, first>>

\* fIdx := queue[0]; queue = queue[1:]
Dequeue ==
  /\ pc = "loop"
  /\ Len(queue) > 0
  /\ fIdx' = Head(queue)
  /\ queue' = Tail(queue)
  /\ nbrPos' = 0
  /\ placeOrder' = Append(placeOrder, Head(queue))
  /\ pc' = "nbrs"
  /\ UNCHANGED <<faces, rootFace, adjacency, adjErr, parent, visited, bfsQueue,
                 placed, face2Ds, result, err, treeOrder, placeLog, run, first>>

\* One iteration of `for _, nbr := range adjacency.Neighbors[fIdx]`.
PlaceNeighbor ==
  /\ pc = "nbrs"
  /\ nbrPos < Len(adjacency[fIdx])
  /\ LET nbr == adjacency[fIdx][nbrPos + 1]
         nfIdx == nbr.FaceIndex
     IN IF IsTreeEdge(parent, placed, fIdx, nfIdx)
        THEN /\ placeLog' = Append(placeLog,
                  [fn |-> "placeAdjacentFace", from |-> fIdx, face |-> nfIdx,
                   fromPlaced |-> placed[fIdx], facePlaced |-> placed[nfIdx],
                   faceParent |-> parent[nfIdx]])
             /\ IF placeAdjacentFaceFails(Face(faces, nfIdx))
                THEN /\ err' = <<"failed to place face">>
                     /\ pc' = "error"
                     /\ UNCHANGED <<placed, face2Ds, queue, nbrPos>>
                ELSE /\ face2Ds' = [face2Ds EXCEPT
                                      ![nfIdx] = PlacedPoints(Face(faces, nfIdx))]
                     /\ placed' = [placed EXCEPT ![nfIdx] = TRUE]
                     /\ queue' = Enqueue(queue, nfIdx)
                     /\ nbrPos' = nbrPos + 1
                     /\ UNCHANGED <<err, pc>>
        ELSE /\ nbrPos' = nbrPos + 1
             /\ UNCHANGED <<placeLog, err, pc, placed, face2Ds, queue>>
  /\ UNCHANGED <<faces, rootFace, adjacency, adjErr, parent, visited, bfsQueue,
                 fIdx, result, treeOrder, placeOrder, run, first>>

\* The range over the neighbours of fIdx is over.
NeighborsDone ==
  /\ pc = "nbrs"
  /\ nbrPos >= Len(adjacency[fIdx])
  /\ pc' = "loop"
  /\ UNCHANGED <<faces, rootFace, adjacency, adjErr, parent, visited, bfsQueue,
                 placed, face2Ds, queue, fIdx, nbrPos, result, err, treeOrder,
                 placeOrder, placeLog, run, first>>

\* return &UnfoldResult{...}, nil
Return ==
  /\ pc = "loop"
  /\ Len(queue) = 0
  /\ result' = <<[Face2D |-> face2Ds, SpanningTree |-> parent]>>
  /\ pc' = "done"
  /\ UNCHANGED <<faces, rootFace, adjacency, adjErr, parent, visited, bfsQueue,
                 placed, face2Ds, queue, fIdx, nbrPos, err, treeOrder,
                 placeOrder, placeLog, run, first>>

\* The caller calls UnfoldMesh again with the same polyhedron and root.
CallAgain ==
  /\ run = 1
  /\ pc \in {"done", "error"}
  /\ run' = 2
  /\ first' = <<[adjacency |-> adjacency, result |-> result, err |-> err,
                 placeLog |-> placeLog]>>
  /\ pc' = "start"
  /\ adjacency' = <<>>
  /\ adjErr' = Nil
  /\ parent' = <<>>
  /\ visited' = <<>>
  /\ bfsQueue' = <<>>
  /\ placed' = <<>>
  /\ face2Ds' = <<>>
  /\ queue' = <<>>
  /\ fIdx' = -1
  /\ nbrPos' = 0
  /\ result' = Nil
  /\ err' = Nil
  /\ treeOrder' = <<>>
  /\ placeOrder' = <<>>
  /\ placeLog' = <<>>
  /\ UNCHANGED <<faces, rootFace>>

Next ==
  \/ Enter
  \/ CallBuildFaceAdjacency
  \/ TreeStart
  \/ TreeStep
  \/ TreeReturn
  \/ PlaceRoot
  \/ Dequeue
  \/ PlaceNeighbor
  \/ NeighborsDone
  \/ Return

Spec == Init /\ [][Next]_vars

NextTwice == Next \/ CallAgain

\* The polyhedra on which two calls are compared.
TwicePolyhedra == GenPolyhedra \cup {UnitCube, Ring, Strip}

InitTwice == Init /\ faces \in TwicePolyhedra

SpecTwice == InitTwice /\ [][NextTwice]_vars

---------------------------------------------------------------------------
(* What the claims are stated with.  These are written from the polyhedron *)
(* and the returned graph, not from the operators above.                   *)

\* BuildFaceAdjacency has returned.
AdjBuilt == NFaces(faces) > 0 /\ pc \notin {"start", "adjacency"}

\* BuildFaceSpanningTree has returned.
TreeBuilt == AdjBuilt /\ parent # <<>> /\ pc # "bfs"

\* The entries of face a's neighbour list that name face b across edge e.
Entries(a, b, e) ==
  {i \in DOMAIN adjacency[a] :
     adjacency[a][i].FaceIndex = b /\ adjacency[a][i].SharedEdge = e}

\* The entries of face a's neighbour list that carry edge e.
Carrying(a, e) == {i \in DOMAIN adjacency[a] : adjacency[a][i].SharedEdge = e}

\* The undirected edge at slot i of a face, as a set of one or two vertices.
EdgeAt(face, i) == {face[i + 1], face[((i + 1) % Len(face)) + 1]}

\* The slots of a face that hold the edge with canonical key k.
SlotsOf(face, k) == {i \in 0..(Len(face) - 1) : EdgeAt(face, i) = {k[1], k[2]}}

\* The faces that have the edge with canonical key k.
Users(k) == {f \in FaceIdx(faces) : SlotsOf(Face(faces, f), k) # {}}

UsedVerts == UNION {Range(Face(faces, f)) : f \in FaceIdx(faces)}

\* The canonical keys: smaller vertex index first.
CanonicalKeys == {k \in UsedVerts \X UsedVerts : k[1] <= k[2]}

\* No face uses the same undirected edge twice.
NoFaceRepeatsEdge ==
  \A f \in FaceIdx(faces) :
    \A i \in 0..(Len(Face(faces, f)) - 1), j \in 0..(Len(Face(faces, f)) - 1) :
      EdgeAt(Face(faces, f), i) = EdgeAt(Face(faces, f), j) => i = j

\* Faces a and b are neighbours in the returned graph.
Adjacent(a, b) == \E i \in DOMAIN adjacency[a] : adjacency[a][i].FaceIndex = b

RECURSIVE Closure(_)
Closure(S) ==
  LET N == S \cup
           UNION {{adjacency[f][i].FaceIndex : i \in DOMAIN adjacency[f]} : f \in S}
  IN IF N = S THEN S ELSE Closure(N)

\* The connected component of rootFace in the adjacency graph.
Reachable == Closure({rootFace})

\* Following parent links from f reaches rootFace without repeating a face.
RECURSIVE ClimbsToRoot(_, _)
ClimbsToRoot(f, seen) ==
  IF f = rootFace THEN TRUE
  ELSE IF f \in seen \/ parent[f] \notin FaceIdx(faces) THEN FALSE
  ELSE ClimbsToRoot(parent[f], seen \cup {f})

\* The position of x in a sequence that holds it.
Pos(s, x) == Min({i \in DOMAIN s : s[i] = x})

IsPrefix(s, t) == Len(s) <= Len(t) /\ \A i \in DOMAIN s : s[i] = t[i]

\* The faces handed to placeRootFace or placeAdjacentFace so far.
LoggedFaces == {placeLog[i].face : i \in DOMAIN placeLog}

---------------------------------------------------------------------------
(* The claims *)

\* C1: the graph BuildFaceAdjacency returns is symmetric: face a lists b
\* across edge e exactly as many times as b lists a across e.
C1_Symmetric ==
  AdjBuilt =>
    \A a \in FaceIdx(faces) : \A i \in DOMAIN adjacency[a] :
      LET b == adjacency[a][i].FaceIndex
          e == adjacency[a][i].SharedEdge
      IN /\ b \in FaceIdx(faces)
         /\ Entries(b, a, e) # {}
         /\ Cardinality(Entries(a, b, e)) = Cardinality(Entries(b, a, e))

C1_Witness ==
  /\ AdjBuilt
  /\ \E a \in FaceIdx(faces), b \in FaceIdx(faces) : \E e \in CanonicalKeys :
       a # b /\ Entries(a, b, e) # {}

\* C2: parent[rootFace] is -1; every face reachable from rootFace climbs to
\* rootFace along parent links without repeating a face, and its parent is
\* reachable and adjacent to it; on a connected mesh (the unit cube) rootFace
\* alone has -1 and every other face's parent was visited before it.
C2_SpanningTree ==
  TreeBuilt =>
    /\ parent[rootFace] = -1
    /\ \A f \in Reachable :
         /\ ClimbsToRoot(f, {})
         /\ f # rootFace =>
              parent[f] \in Reachable /\ Adjacent(parent[f], f) /\ Adjacent(f, parent[f])
    /\ Reachable = FaceIdx(faces) =>
         /\ {f \in FaceIdx(faces) : parent[f] = -1} = {rootFace}
         /\ Range(treeOrder) = FaceIdx(faces)
         /\ \A f \in FaceIdx(faces) \ {rootFace} :
              Pos(treeOrder, parent[f]) < Pos(treeOrder, f)

C2_Witness ==
  /\ TreeBuilt
  /\ faces = UnitCube
  /\ rootFace = 0
  /\ Reachable = FaceIdx(faces)
  /\ Cardinality({f \in FaceIdx(faces) : parent[f] # -1}) = 5

\* C4: when no face uses an edge twice, an edge of one face or of three or
\* more faces is carried by no neighbour entry, and an edge of exactly two
\* faces a and b is carried by exactly one entry of a, naming b, and exactly
\* one entry of b, naming a.
C4_EdgePolicy ==
  (AdjBuilt /\ NoFaceRepeatsEdge) =>
    \A k \in CanonicalKeys :
      LET users == Users(k)
      IN /\ Cardinality(users) # 2 =>
              \A f \in FaceIdx(faces) : Carrying(f, k) = {}
         /\ Cardinality(users) = 2 =>
              /\ \A a \in users : \A b \in users \ {a} :
                   /\ Cardinality(Carrying(a, k)) = 1
                   /\ Cardinality(Entries(a, b, k)) = 1
              /\ \A f \in FaceIdx(faces) \ users : Carrying(f, k) = {}

C4_Witness ==
  /\ AdjBuilt
  /\ NoFaceRepeatsEdge
  /\ \E k \in CanonicalKeys : Cardinality(Users(k)) = 1
  /\ \E k \in CanonicalKeys : Cardinality(Users(k)) = 2
  /\ \E k \in CanonicalKeys : Cardinality(Users(k)) >= 3

\* C5: a second call of UnfoldMesh on the same polyhedron and root returns
\* what the first returned: the same neighbour lists, the same result and
\* the same sequence of placements.
C5_SameResultTwice ==
  (run = 2 /\ pc = "done") =>
    /\ adjacency = first[1].adjacency
    /\ result = first[1].result
    /\ placeLog = first[1].placeLog

\* C6: when an edge belongs to three or more faces, BuildFaceAdjacency
\* reports it to its caller.
C6_NonManifoldReported ==
  (AdjBuilt /\ \E k \in CanonicalKeys : Cardinality(Users(k)) >= 3) => adjErr # Nil

\* C7: UnfoldMesh does not return a result when the polyhedron has no faces
\* or one of its faces has fewer than 3 vertices.
C7_ShortFaceRejected ==
  (NFaces(faces) = 0 \/ \E f \in FaceIdx(faces) : Len(Face(faces, f)) < 3) =>
    (pc # "done" /\ result = Nil)

\* C8: a face outside the connected component of rootFace has parent -1, is
\* never handed to placeRootFace or placeAdjacentFace, never enters the
\* placement queue, and its Face2D stays empty, up to and in the result.
C8_UnreachableUntouched ==
  (TreeBuilt /\ face2Ds # <<>>) =>
    \A f \in FaceIdx(faces) \ Reachable :
      /\ parent[f] = -1
      /\ f \notin LoggedFaces
      /\ f \notin Range(queue) \cup Range(placeOrder)
      /\ ~placed[f]
      /\ face2Ds[f] = <<>>
      /\ pc = "done" =>
           result[1].SpanningTree[f] = -1 /\ result[1].Face2D[f] = <<>>

C8_Witness ==
  /\ pc = "done"
  /\ FaceIdx(faces) \ Reachable # {}
  /\ Cardinality(LoggedFaces) >= 2

\* C9: placeRootFace is called once, first, for rootFace; placeAdjacentFace
\* is called for child c from p only when p is placed, c is not, and
\* parent[c] = p; no face is placed twice; when the loop ends the faces
\* placed are exactly those reachable from rootFace.
C9_PlacedOnceAfterParent ==
  /\ \A i \in DOMAIN placeLog :
       /\ placeLog[i].fn = "placeRootFace" <=> i = 1
       /\ i = 1 => placeLog[i].face = rootFace
       /\ i > 1 =>
            /\ placeLog[i].fromPlaced
            /\ ~placeLog[i].facePlaced
            /\ placeLog[i].faceParent = placeLog[i].from
            /\ \E j \in 1..(i - 1) : placeLog[j].face = placeLog[i].from
            /\ Adjacent(placeLog[i].from, placeLog[i].face)
  /\ \A i \in DOMAIN placeLog, j \in DOMAIN placeLog :
       placeLog[i].face = placeLog[j].face => i = j
  /\ pc = "done" => LoggedFaces = Reachable /\ {f \in FaceIdx(faces) : placed[f]} = Reachable

\* A finished run with at least two children placed, in which two faces
\* list each other twice.
C9_Witness ==
  /\ pc = "done"
  /\ Len(placeLog) >= 3
  /\ \E a \in FaceIdx(faces), b \in FaceIdx(faces) :
       Cardinality({i \in DOMAIN adjacency[a] : adjacency[a][i].FaceIndex = b}) >= 2

\* C10: the faces the placement loop dequeues are, in order, the faces the
\* spanning-tree loop dequeued: a prefix of them while it runs, all of them
\* when it ends.
C10_SameOrder ==
  /\ IsPrefix(placeOrder, treeOrder)
  /\ pc = "done" => placeOrder = treeOrder

\* A finished run in which two faces list each other twice.
C10_Witness ==
  /\ pc = "done"
  /\ Len(placeOrder) >= 3
  /\ placeOrder = treeOrder
  /\ \E a \in FaceIdx(faces), b \in FaceIdx(faces) :
       a # b /\ Cardinality({i \in DOMAIN adjacency[a] : adjacency[a][i].FaceIndex = b}) >= 2

====
